---- MODULE Spec2Model ----
(***************************************************************************)
(* A model of the pigeon STOMP client (src/pigeon/client.py) and of its    *)
(* adaptive callback invocation (src/pigeon/utils.py).                     *)
(*                                                                         *)
(* The client state is the three dictionaries of Pigeon (_topics,          *)
(* _msg_versions, _callbacks).  The STOMP connection object is an external *)
(* collaborator: it is modelled by the calls the client issues on it, by   *)
(* its is_connected() answer and by the subscription ids of its current    *)
(* session.  Every public method and the listener hook is one action; the  *)
(* blocking retry loop of connect is a small process with a position (pc). *)
(* The variable last records the most recent operation: its arguments, how *)
(* it ended (normally or with which exception), the transport calls it     *)
(* issued and the callback invocation it made.                             *)
(***************************************************************************)
EXTENDS Integers, Sequences, FiniteSets, TLC

VARIABLES
    _topics,        \* Pigeon._topics: topic -> message class
    _msg_versions,  \* Pigeon._msg_versions: topic -> version string
    _callbacks,     \* Pigeon._callbacks: topic -> callback
    is_connected,   \* what self._connection.is_connected() answers
    subscriptions,  \* subscription ids of the transport's current session
    pc,             \* position of the caller inside connect ("idle" outside)
    retry_limit,    \* connect's retry_limit argument of the call in progress
    retries,        \* connect's local counter
    attempts,       \* transport connect calls issued by the connect in progress
    sleeps,         \* time.sleep(1) calls made by the connect in progress
    last            \* the most recent operation and its outcome

vars == << _topics, _msg_versions, _callbacks, is_connected, subscriptions,
           pc, retry_limit, retries, attempts, sleeps, last >>

client_state == << _topics, _msg_versions, _callbacks >>
connect_locals == << pc, retry_limit, retries, attempts, sleeps >>

-----------------------------------------------------------------------------
(* Bounds and input universes *)

\* Largest explicit retry_limit argument tried (the default is tried as well).
MaxRetryLimit == 2

\* connect's default retry_limit.
DefaultRetryLimit == 8

Topics == {"orders", "status"}
MsgClasses == {"OrderMsg", "StatusMsg"}
Versions == {"1.0", "2.0"}
Service == "pigeon-svc"

\* Python's None.
None == "None"

\* Readings of time.time_ns() offered to get_str_time_ms.
ClockNs == {1999999}

\* Keyword payloads handed to send.
Payloads == { [id |-> 5, qty |-> 2], [state |-> "up"] }

\* The empty dict.
EmptyDict == [k \in {} |-> None]

\* dict.update: entries of e replace or extend those of d.
DictUpdate(d, e) ==
    [k \in DOMAIN d \cup DOMAIN e |-> IF k \in DOMAIN e THEN e[k] ELSE d[k]]

\* d[k] = v on a dict.
DictSet(d, k, v) == [x \in DOMAIN d \cup {k} |-> IF x = k THEN v ELSE d[x]]

\* A del that is left out.
DictDel_left_out(d, k) == d

\* del d[k] for a key that is present.
DictDel(d, k) == [x \in DOMAIN d \ {k} |-> d[x]]

\* dict.get(k): None when the key is absent.
DictGet(d, k) == IF k \in DOMAIN d THEN d[k] ELSE None

-----------------------------------------------------------------------------
(* The schema layer: message classes with a validating constructor,        *)
(* serialize and deserialize.                                              *)

Fields(msg_class) ==
    IF msg_class = "OrderMsg" THEN {"id", "qty"} ELSE {"state"}

\* msg_class(**data) succeeds: the keyword fields are the class's fields.
Constructs(msg_class, data) == DOMAIN data = Fields(msg_class)

\* msg_class(**data).serialize(): the wire form of the message.
Serialize(msg_class, data) == << "json", msg_class, data >>

\* msg_class.deserialize(body) succeeds: the body validates against the class.
Decodes(msg_class, body) == Constructs(msg_class, body[3])

\* msg_class.deserialize(body): the message carried by the wire form.
Deserialize(msg_class, body) == [class |-> msg_class, data |-> body[3]]

\* str(int(time.time_ns() / 1e6))
get_str_time_ms(ns) == ToString(ns \div 1000000)

-----------------------------------------------------------------------------
(* Callbacks and their declared parameters (inspect.signature) *)

Param(name, kind, has_default) ==
    [name |-> name, kind |-> kind, has_default |-> has_default]

Pos(name) == Param(name, "POSITIONAL_OR_KEYWORD", FALSE)

\* The callbacks a caller may subscribe, by name.
Callbacks ==
    { "cb_none", "cb_msg", "cb_msg_topic", "cb_all", "cb_four", "cb_varargs",
      "cb_four_varargs", "cb_default_kwargs", "cb_kwonly" }

\* inspect.signature(func).parameters, in declaration order.
Signature(func) ==
    CASE func = "cb_none" -> << >>                    \* def cb()
      [] func = "cb_msg" -> << Pos("msg") >>          \* def cb(msg)
      [] func = "cb_msg_topic" ->                     \* def cb(msg, topic)
            << Pos("msg"), Pos("topic") >>
      [] func = "cb_all" ->                           \* def cb(msg, topic, headers)
            << Pos("msg"), Pos("topic"), Pos("headers") >>
      [] func = "cb_four" ->                          \* def cb(a, b, c, d)
            << Pos("a"), Pos("b"), Pos("c"), Pos("d") >>
      [] func = "cb_varargs" ->                       \* def cb(*args)
            << Param("args", "VAR_POSITIONAL", FALSE) >>
      [] func = "cb_four_varargs" ->                  \* def cb(a, b, c, d, *args)
            << Pos("a"), Pos("b"), Pos("c"), Pos("d"),
               Param("args", "VAR_POSITIONAL", FALSE) >>
      [] func = "cb_default_kwargs" ->                \* def cb(msg, topic=None, **kwargs)
            << Pos("msg"), Param("topic", "POSITIONAL_OR_KEYWORD", TRUE),
               Param("kwargs", "VAR_KEYWORD", FALSE) >>
      [] func = "cb_kwonly" ->                        \* def cb(msg, *, flag)
            << Pos("msg"), Param("flag", "KEYWORD_ONLY", FALSE) >>

\* The callbacks tried on each topic: every shape on "orders", two plain
\* ones on the other topic.
CallbacksFor(topic) ==
    IF topic = "orders" THEN Callbacks ELSE {"cb_msg", "cb_all"}

HasKind(params, kind) == \E i \in 1..Len(params) : params[i].kind = kind

IsPositional(p) == p.kind = "POSITIONAL_OR_KEYWORD"

IsNamed(p) == p.kind \in {"POSITIONAL_OR_KEYWORD", "KEYWORD_ONLY"}

\* func(*args, **kwargs): whether Python can bind the arguments to the
\* parameters (otherwise the call raises TypeError before func runs).
Binds(params, args, kwargs) ==
    LET pos == SelectSeq(params, IsPositional)
    IN  /\ Len(args) <= Len(pos) \/ HasKind(params, "VAR_POSITIONAL")
        /\ \A i \in 1..Len(pos) :
              IF i <= Len(args)
              THEN pos[i].name \notin DOMAIN kwargs
              ELSE pos[i].has_default \/ pos[i].name \in DOMAIN kwargs
        /\ \A i \in 1..Len(params) :
              params[i].kind = "KEYWORD_ONLY" =>
                  params[i].has_default \/ params[i].name \in DOMAIN kwargs
        /\ \A k \in DOMAIN kwargs :
              \/ HasKind(params, "VAR_KEYWORD")
              \/ \E i \in 1..Len(params) : IsNamed(params[i]) /\ params[i].name = k

\* A callback invocation.
Invocation(func, args, kwargs) == [func |-> func, args |-> args, kwargs |-> kwargs]

\* return func(*args, **kwargs)
PyCall(func, args, kwargs) ==
    IF Binds(Signature(func), args, kwargs)
    THEN [raised |-> None, invoked |-> << Invocation(func, args, kwargs) >>]
    ELSE [raised |-> "TypeError", invoked |-> << >>]

\* The number of parameters call_with_correct_args counts as required
\* positional: no default, and not the **kwargs collector.
NumArgsCounted(p) == ~p.has_default /\ p.kind # "VAR_KEYWORD"

num_args(params) == Len(SelectSeq(params, NumArgsCounted))

\* The truncation step left out.
truncate_args_skipped(params, args) == args

\* The positional arguments after the truncation step.
truncate_args(params, args) ==
    IF HasKind(params, "VAR_POSITIONAL") THEN args
    ELSE SubSeq(args, 1, num_args(params))

\* The keyword arguments after the filtering step.
filter_kwargs(params, kwargs) ==
    IF HasKind(params, "VAR_KEYWORD") THEN kwargs
    ELSE [k \in {x \in DOMAIN kwargs :
                    \E i \in 1..Len(params) :
                        params[i].name = x /\ params[i].has_default} |-> kwargs[k]]

\* call_with_correct_args(func, *args, **kwargs)
call_with_correct_args(func, args, kwargs) ==
    LET params == Signature(func)
    IN  IF ~HasKind(params, "VAR_POSITIONAL") /\ num_args(params) > Len(args)
        THEN [raised |-> "SignatureException", invoked |-> << >>]
        ELSE PyCall(func, truncate_args(params, args), filter_kwargs(params, kwargs))

-----------------------------------------------------------------------------
(* The record of a completed operation *)

\* A call issued on the transport (self._connection.<method>(**kwargs)).
TransportCall(method, kwargs) == [method |-> method, kwargs |-> kwargs]

NoArgs == EmptyDict

\* op(arg) ended by raising `raised` (None: it returned normally), having
\* issued the transport calls `calls`, written the log records `log`, slept
\* `slept` times, deserialized a body or not, and invoked `invoked`.
Outcome(op, arg, raised, calls, log, slept, deserialized, invoked) ==
    [op |-> op, arg |-> arg, raised |-> raised, calls |-> calls, log |-> log,
     slept |-> slept, deserialized |-> deserialized, invoked |-> invoked]

\* The `raised` of an operation that has not ended yet (connect blocks).
Pending == "pending"

\* An operation that only touches the transport and the log.
PlainOutcome(op, arg, raised, calls, log) ==
    Outcome(op, arg, raised, calls, log, 0, FALSE, << >>)

-----------------------------------------------------------------------------
(* TopicRegistry: Pigeon.register_topic, register_topics, _ensure_topic_exists *)

\* register_topics keeping the version of a topic that is already bound.
registered_topics_keep_version(t, v, topics, version) ==
    << DictUpdate(t, topics),
       DictUpdate([topic \in DOMAIN topics |-> version], v) >>

\* The dicts after register_topics(topics, version), as << _topics, _msg_versions >>.
registered_topics(t, v, topics, version) ==
    << DictUpdate(t, topics),
       DictUpdate(v, [topic \in DOMAIN topics |-> version]) >>

\* register_topic without its second assignment.
registered_topic_schema_only(t, v, topic, msg_class, version) ==
    << DictSet(t, topic, msg_class), v >>

\* The dicts after register_topic(topic, msg_class, version).
registered_topic(t, v, topic, msg_class, version) ==
    << DictSet(t, topic, msg_class), DictSet(v, topic, version) >>

\* _ensure_topic_exists without its check.
ensure_topic_exists_unchecked(topic) == TRUE

\* _ensure_topic_exists(topic) returns without raising.
_ensure_topic_exists(topic) ==
    ~(topic \notin DOMAIN _topics \/ topic \notin DOMAIN _msg_versions)

\* What the packages installed with the client offer in the pigeon.msgs
\* entry-point group: each entry point loads to (topics, version).
EntryPointSets ==
    { << >>,
      << [topics |-> [t \in {"orders"} |-> "OrderMsg"], version |-> "1.0"] >> }

\* _load_topics: register_topics(*entrypoint.load()) for each entry point.
RECURSIVE _load_topics(_, _, _)
_load_topics(t, v, entrypoints) ==
    IF entrypoints = << >> THEN << t, v >>
    ELSE LET r == registered_topics(t, v, Head(entrypoints).topics,
                                    Head(entrypoints).version)
         IN  _load_topics(r[1], r[2], Tail(entrypoints))

\* Pigeon.__init__
Init ==
    \E load_topics \in BOOLEAN, entrypoints \in EntryPointSets :
        LET loaded == IF load_topics
                      THEN _load_topics(EmptyDict, EmptyDict, entrypoints)
                      ELSE << EmptyDict, EmptyDict >>
        IN  /\ _topics = loaded[1]
            /\ _msg_versions = loaded[2]
            /\ _callbacks = EmptyDict
            /\ is_connected = FALSE
            /\ subscriptions = {}
            /\ pc = "idle"
            /\ retry_limit = 0
            /\ retries = 0
            /\ attempts = 0
            /\ sleeps = 0
            /\ last = PlainOutcome("__init__", NoArgs, None, << >>, << >>)

\* Pigeon.register_topic(topic, msg_class, version)
register_topic(topic, msg_class, version) ==
    /\ pc = "idle"
    /\ LET r == registered_topic(_topics, _msg_versions, topic, msg_class, version)
       IN  /\ _topics' = r[1]
           /\ _msg_versions' = r[2]
    /\ last' = PlainOutcome("register_topic",
                   [topic |-> topic, msg_class |-> msg_class, version |-> version],
                   None, << >>, << >>)
    /\ UNCHANGED << _callbacks, is_connected, subscriptions, connect_locals >>

\* The topics arguments tried: every dict from some topics to message classes.
TopicDicts == UNION { [ts -> MsgClasses] : ts \in SUBSET Topics }

\* Pigeon.register_topics(topics, version)
register_topics(topics, version) ==
    /\ pc = "idle"
    /\ LET r == registered_topics(_topics, _msg_versions, topics, version)
       IN  /\ _topics' = r[1]
           /\ _msg_versions' = r[2]
    /\ last' = PlainOutcome("register_topics",
                   [topics |-> topics, version |-> version], None, << >>, << >>)
    /\ UNCHANGED << _callbacks, is_connected, subscriptions, connect_locals >>

-----------------------------------------------------------------------------
(* ConnectionManager: Pigeon.connect, a blocking retry loop *)

\* retry_limit arguments tried: small explicit ones and the default.
RetryLimits == (0..MaxRetryLimit) \cup {DefaultRetryLimit}

ConnectCall == TransportCall("connect", [wait |-> TRUE])

\* The error records connect has logged after n failed attempts.
ErrorLogs(n) == [i \in 1..n |-> "error: connection failed"]

\* The transport connect calls a connect call has issued so far.
ConnectCalls(n) == [i \in 1..n |-> ConnectCall]

\* The condition of connect's while loop.
connect_loop_condition == retries < retry_limit

\* Giving up one failure too late.
connect_gives_up_late == retries > retry_limit

\* The condition under which connect gives up after a failed attempt.
connect_gives_up == retries = retry_limit

\* connect(username, password, retry_limit) is called on a client whose
\* transport is not connected: retries = 0.
connect(limit) ==
    /\ pc = "idle"
    /\ ~is_connected
    /\ pc' = "while"
    /\ retry_limit' = limit
    /\ retries' = 0
    /\ attempts' = 0
    /\ sleeps' = 0
    /\ last' = PlainOutcome("connect", [retry_limit |-> limit], Pending,
                            << >>, << >>)
    /\ UNCHANGED << client_state, is_connected, subscriptions >>

\* while retries < retry_limit: enter the body, or fall out of the loop and return.
connect_while ==
    /\ pc = "while"
    /\ IF connect_loop_condition
       THEN /\ pc' = "try"
            /\ UNCHANGED << retry_limit, retries, attempts, sleeps, last >>
       ELSE /\ pc' = "idle"
            /\ retry_limit' = 0
            /\ retries' = 0
            /\ attempts' = 0
            /\ sleeps' = 0
            /\ last' = Outcome("connect", [retry_limit |-> retry_limit], None,
                               ConnectCalls(attempts), ErrorLogs(retries), sleeps,
                               FALSE, << >>)
    /\ UNCHANGED << client_state, is_connected, subscriptions >>

\* self._connection.connect(..., wait=True) succeeds: log and break.
connect_try_succeeds ==
    /\ pc = "try"
    /\ is_connected' = TRUE
    /\ subscriptions' = {}
    /\ pc' = "idle"
    /\ retry_limit' = 0
    /\ retries' = 0
    /\ attempts' = 0
    /\ sleeps' = 0
    /\ last' = Outcome("connect", [retry_limit |-> retry_limit], None,
                       ConnectCalls(attempts + 1),
                       Append(ErrorLogs(retries), "info: connected"),
                       sleeps, FALSE, << >>)
    /\ UNCHANGED client_state

\* self._connection.connect raises ConnectFailedException: log the error and
\* count the retry.
connect_try_fails ==
    /\ pc = "try"
    /\ attempts' = attempts + 1
    /\ retries' = retries + 1
    /\ pc' = "sleep"
    /\ UNCHANGED << client_state, is_connected, subscriptions, retry_limit,
                    sleeps, last >>

\* A loop that raises after the last failure without sleeping.
connect_sleep_skips_last ==
    /\ pc = "sleep"
    /\ IF connect_gives_up
       THEN /\ pc' = "idle"
            /\ retry_limit' = 0
            /\ retries' = 0
            /\ attempts' = 0
            /\ sleeps' = 0
            /\ last' = Outcome("connect", [retry_limit |-> retry_limit],
                               "ConnectFailedException", ConnectCalls(attempts),
                               ErrorLogs(retries), sleeps, FALSE, << >>)
       ELSE /\ pc' = "while"
            /\ sleeps' = sleeps + 1
            /\ UNCHANGED << retry_limit, retries, attempts, last >>
    /\ UNCHANGED << client_state, is_connected, subscriptions >>

\* time.sleep(1), then raise if the retries are used up, else loop.
connect_sleep ==
    /\ pc = "sleep"
    /\ IF connect_gives_up
       THEN /\ pc' = "idle"
            /\ retry_limit' = 0
            /\ retries' = 0
            /\ attempts' = 0
            /\ sleeps' = 0
            /\ last' = Outcome("connect", [retry_limit |-> retry_limit],
                               "ConnectFailedException", ConnectCalls(attempts),
                               ErrorLogs(retries), sleeps + 1, FALSE, << >>)
       ELSE /\ pc' = "while"
            /\ sleeps' = sleeps + 1
            /\ UNCHANGED << retry_limit, retries, attempts, last >>
    /\ UNCHANGED << client_state, is_connected, subscriptions >>

-----------------------------------------------------------------------------
(* ConnectionManager: Pigeon.send, subscribe, unsubscribe, disconnect *)

\* send's headers with the destination added as a fourth header.
send_headers_with_destination(topic, ns) ==
    [service |-> Service,
     version |-> _msg_versions[topic],
     sent_at |-> get_str_time_ms(ns),
     destination |-> topic]

\* The headers send builds for a message on topic at clock reading ns.
send_headers(topic, ns) ==
    [service |-> Service,
     version |-> _msg_versions[topic],
     sent_at |-> get_str_time_ms(ns)]

\* The transport calls send issues for a message that was constructed.
send_calls(topic, data, ns) ==
    << TransportCall("send",
           [destination |-> topic,
            body |-> Serialize(_topics[topic], data),
            headers |-> send_headers(topic, ns)]) >>

\* Pigeon.send(topic, **data)
\* A send that hands the fields to the transport before constructing the
\* message from them.
send_before_constructing(topic, data, ns) ==
    /\ pc = "idle"
    /\ last' =
          IF ~_ensure_topic_exists(topic)
          THEN PlainOutcome("send", [topic |-> topic, data |-> data],
                            "NoSuchTopicException", << >>, << >>)
          ELSE IF ~Constructs(_topics[topic], data)
          THEN PlainOutcome("send", [topic |-> topic, data |-> data],
                            "ValidationError",
                            << TransportCall("send",
                                   [destination |-> topic, body |-> data,
                                    headers |-> send_headers(topic, ns)]) >>,
                            << >>)
          ELSE PlainOutcome("send", [topic |-> topic, data |-> data], None,
                            send_calls(topic, data, ns), << "debug: sent" >>)
    /\ UNCHANGED << client_state, is_connected, subscriptions, connect_locals >>

send(topic, data, ns) ==
    /\ pc = "idle"
    /\ last' =
          IF ~_ensure_topic_exists(topic)
          THEN PlainOutcome("send", [topic |-> topic, data |-> data],
                            "NoSuchTopicException", << >>, << >>)
          ELSE IF topic \notin DOMAIN _topics \/ topic \notin DOMAIN _msg_versions
          THEN \* self._topics[topic] or self._msg_versions[topic] on a missing key
               PlainOutcome("send", [topic |-> topic, data |-> data],
                            "KeyError", << >>, << >>)
          ELSE IF ~Constructs(_topics[topic], data)
          THEN PlainOutcome("send", [topic |-> topic, data |-> data],
                            "ValidationError", << >>, << >>)
          ELSE PlainOutcome("send", [topic |-> topic, data |-> data], None,
                            send_calls(topic, data, ns), << "debug: sent" >>)
    /\ UNCHANGED << client_state, is_connected, subscriptions, connect_locals >>

\* subscribe issuing its transport subscribe on every call.
subscribe_calls_every_time(topic) ==
    << TransportCall("subscribe", [destination |-> topic, id |-> topic]) >>

\* The transport calls subscribe issues: a subscribe for the first callback
\* of the topic only.
subscribe_calls(topic) ==
    IF topic \notin DOMAIN _callbacks
    THEN << TransportCall("subscribe", [destination |-> topic, id |-> topic]) >>
    ELSE << >>

\* The transport's session after the calls: subscribe adds the id, unsubscribe
\* removes it; a transport that is not connected has no session.
SessionAfter(calls) ==
    IF ~is_connected \/ calls = << >> THEN subscriptions
    ELSE IF calls[1].method = "subscribe"
    THEN subscriptions \cup {calls[1].kwargs.id}
    ELSE IF calls[1].method = "unsubscribe"
    THEN subscriptions \ {calls[1].kwargs.id}
    ELSE subscriptions

\* Pigeon.subscribe(topic, callback)
subscribe(topic, callback) ==
    /\ pc = "idle"
    /\ IF ~_ensure_topic_exists(topic)
       THEN /\ last' = PlainOutcome("subscribe",
                           [topic |-> topic, callback |-> callback],
                           "NoSuchTopicException", << >>, << >>)
            /\ UNCHANGED << _callbacks, subscriptions >>
       ELSE /\ subscriptions' = SessionAfter(subscribe_calls(topic))
            /\ _callbacks' = DictSet(_callbacks, topic, callback)
            /\ last' = PlainOutcome("subscribe",
                           [topic |-> topic, callback |-> callback], None,
                           subscribe_calls(topic), << "info: subscribed" >>)
    /\ UNCHANGED << _topics, _msg_versions, is_connected, connect_locals >>

\* The transport calls unsubscribe issues once the topic is known.
unsubscribe_calls(topic) == << TransportCall("unsubscribe", [id |-> topic]) >>

\* Pigeon.unsubscribe(topic)
unsubscribe(topic) ==
    /\ pc = "idle"
    /\ IF ~_ensure_topic_exists(topic)
       THEN /\ last' = PlainOutcome("unsubscribe", [topic |-> topic],
                           "NoSuchTopicException", << >>, << >>)
            /\ UNCHANGED << _callbacks, subscriptions >>
       ELSE /\ subscriptions' = SessionAfter(unsubscribe_calls(topic))
            /\ IF topic \in DOMAIN _callbacks
               THEN /\ _callbacks' = DictDel(_callbacks, topic)
                    /\ last' = PlainOutcome("unsubscribe", [topic |-> topic], None,
                                   unsubscribe_calls(topic),
                                   << "info: unsubscribed" >>)
               ELSE \* del self._callbacks[topic] on a missing key
                    /\ UNCHANGED _callbacks
                    /\ last' = PlainOutcome("unsubscribe", [topic |-> topic],
                                   "KeyError", unsubscribe_calls(topic),
                                   << "info: unsubscribed" >>)
    /\ UNCHANGED << _topics, _msg_versions, is_connected, connect_locals >>

\* Pigeon.disconnect()
\* A disconnect that does not ask the transport first.
disconnect_acts_always == TRUE

\* if self._connection.is_connected():
disconnect_acts == is_connected

disconnect ==
    /\ pc = "idle"
    /\ IF disconnect_acts
       THEN /\ is_connected' = FALSE
            /\ subscriptions' = {}
            /\ last' = PlainOutcome("disconnect", NoArgs, None,
                           << TransportCall("disconnect", NoArgs) >>,
                           << "info: disconnected" >>)
       ELSE /\ UNCHANGED << is_connected, subscriptions >>
            /\ last' = PlainOutcome("disconnect", NoArgs, None, << >>, << >>)
    /\ UNCHANGED << client_state, connect_locals >>

-----------------------------------------------------------------------------
(* Inbound path: TEMCommsListener.on_message and Pigeon._handle_message *)

\* The frames the transport may hand to the listener: a subscription header,
\* a version header (or none) and a serialized message.
InboundHeaders ==
    { [subscription |-> t, version |-> v] : t \in Topics, v \in Versions }
        \cup { [subscription |-> t] : t \in Topics }

\* Bodies on the wire: serialized messages of publishers.
Bodies ==
    { Serialize(x[1], x[2]) :
        x \in { y \in {"OrderMsg"} \X Payloads : Constructs(y[1], y[2]) } }

Frames == { [headers |-> h, body |-> b] : h \in InboundHeaders, b \in Bodies }

\* The name of the header the listener stamps the reception time under.
StampedHeader == "recieved_at"

\* frame.headers["recieved_at"] = get_str_time_ms()
stamp(frame, ns) ==
    [frame EXCEPT !.headers = DictSet(frame.headers, StampedHeader,
                                      get_str_time_ms(ns))]

\* The version check made only on frames that carry a version header.
version_matches_if_present(headers, topic) ==
    "version" \in DOMAIN headers => headers["version"] = DictGet(_msg_versions, topic)

\* The version check of _handle_message passes.
version_matches(headers, topic) ==
    ~(DictGet(headers, "version") # DictGet(_msg_versions, topic))

\* The handler the dispatch looks up for the topic of a frame.
registered_for_dispatch(topic) ==
    ~(topic \notin DOMAIN _topics \/ topic \notin DOMAIN _msg_versions)

\* Pigeon._handle_message(message_frame): how it ends.
_handle_message(message_frame) ==
    LET topic == message_frame.headers["subscription"]
        arg == [frame |-> message_frame]
    IN  IF ~registered_for_dispatch(topic)
        THEN PlainOutcome("on_message", arg, None, << >>,
                          << "warning: unregistered topic" >>)
        ELSE IF ~version_matches(message_frame.headers, topic)
        THEN PlainOutcome("on_message", arg, "VersionMismatchException",
                          << >>, << >>)
        ELSE IF topic \notin DOMAIN _topics
        THEN \* self._topics[topic] on a missing key
             PlainOutcome("on_message", arg, "KeyError", << >>, << >>)
        ELSE IF ~Decodes(_topics[topic], message_frame.body)
        THEN PlainOutcome("on_message", arg, "ValidationError", << >>, << >>)
        ELSE IF topic \notin DOMAIN _callbacks
        THEN \* self._callbacks[topic] on a missing key, after deserialize
             Outcome("on_message", arg, "KeyError", << >>, << >>, 0, TRUE, << >>)
        ELSE LET message_data == Deserialize(_topics[topic], message_frame.body)
                 r == call_with_correct_args(_callbacks[topic],
                          << message_data, topic, message_frame.headers >>,
                          EmptyDict)
             IN  Outcome("on_message", arg, r.raised, << >>, << >>, 0, TRUE,
                         r.invoked)

\* TEMCommsListener.on_message(frame), called by the transport on a live
\* connection.
\* A listener for which a version mismatch ends the connection.
on_message_connection_fatal(frame, ns) ==
    /\ is_connected
    /\ last' = _handle_message(stamp(frame, ns))
    /\ IF last'.raised = "VersionMismatchException"
       THEN is_connected' = FALSE /\ subscriptions' = {}
       ELSE UNCHANGED << is_connected, subscriptions >>
    /\ UNCHANGED << client_state, connect_locals >>

on_message(frame, ns) ==
    /\ is_connected
    /\ last' = _handle_message(stamp(frame, ns))
    /\ UNCHANGED << client_state, is_connected, subscriptions, connect_locals >>

-----------------------------------------------------------------------------

Next ==
    \/ \E topic \in Topics, msg_class \in MsgClasses, version \in Versions :
          register_topic(topic, msg_class, version)
    \/ \E topics \in TopicDicts, version \in Versions :
          register_topics(topics, version)
    \/ \E limit \in RetryLimits : connect(limit)
    \/ connect_while
    \/ connect_try_succeeds
    \/ connect_try_fails
    \/ connect_sleep
    \/ \E topic \in Topics, data \in Payloads, ns \in ClockNs :
          send(topic, data, ns)
    \/ \E topic \in Topics : \E callback \in CallbacksFor(topic) :
          subscribe(topic, callback)
    \/ \E topic \in Topics : unsubscribe(topic)
    \/ disconnect
    \/ \E frame \in Frames, ns \in ClockNs : on_message(frame, ns)

Spec == Init /\ [][Next]_vars

\* A connect in progress goes on: the loop test and the sleep end, and the
\* blocking transport connect (wait=True) returns or raises.
FairSpec ==
    /\ Spec
    /\ WF_vars(connect_while)
    /\ WF_vars(connect_try_succeeds \/ connect_try_fails)
    /\ WF_vars(connect_sleep)

-----------------------------------------------------------------------------
(* Vocabulary of the properties *)

\* The topic is fully bound: it has a message class and a version.
Registered(topic) == topic \in DOMAIN _topics /\ topic \in DOMAIN _msg_versions

\* The step is a call of (or, for on_message, a delivery to) one of ops.
StepOf(ops) == last' # last /\ last'.op \in ops

\* The topic an operation on a topic was called with.
OpTopic(o) == o.arg.topic

\* The topic a delivered frame names.
FrameTopic(o) == o.arg.frame.headers["subscription"]

-----------------------------------------------------------------------------
(* Properties *)

\* C1: after every completed registration (register_topic, register_topics,
\* plugin discovery in the constructor) the topics of the schema mapping are
\* exactly the topics of the version mapping.
C1_RegistryKeysAgree == DOMAIN _topics = DOMAIN _msg_versions

\* C1 witness: registrations of both kinds have bound both topics.
C1_Witness ==
    /\ last.op = "register_topic"
    /\ DOMAIN _topics = Topics
    /\ DOMAIN _msg_versions = Topics
    /\ _msg_versions["orders"] # _msg_versions["status"]

\* C2: send on a topic that is not registered raises NoSuchTopicException,
\* issues no transport call and leaves registry and subscription map as they
\* were.
C2_SendUnregistered ==
    [][ (StepOf({"send"}) /\ ~Registered(OpTopic(last')))
          => /\ last'.raised = "NoSuchTopicException"
             /\ last'.calls = << >>
             /\ UNCHANGED << _topics, _msg_versions, _callbacks, subscriptions >>
      ]_vars

\* C2 witness: a send on an unregistered topic has been made while another
\* topic is registered and the transport is connected.
C2_Witness ==
    /\ last.op = "send"
    /\ ~Registered(OpTopic(last))
    /\ last.raised = "NoSuchTopicException"
    /\ DOMAIN _topics # {}
    /\ is_connected

\* C3: subscribe and unsubscribe on a topic that is not registered raise
\* NoSuchTopicException before any transport subscribe or unsubscribe call
\* and leave the callback map as it was.
C3_SubscribeUnregistered ==
    [][ (StepOf({"subscribe", "unsubscribe"}) /\ ~Registered(OpTopic(last')))
          => /\ last'.raised = "NoSuchTopicException"
             /\ last'.calls = << >>
             /\ UNCHANGED << _callbacks, subscriptions >>
      ]_vars

\* C3 witness: an unsubscribe on an unregistered topic has raised while the
\* other topic holds a subscription on a live connection.
C3_Witness ==
    /\ last.op = "unsubscribe"
    /\ ~Registered(OpTopic(last))
    /\ last.raised = "NoSuchTopicException"
    /\ DOMAIN _callbacks # {}
    /\ subscriptions # {}

\* C4: a frame for a registered topic whose version header differs from the
\* version bound to the topic raises VersionMismatchException; no callback
\* is invoked for it and its body is not deserialized.
C4_VersionMismatch ==
    [][ ( /\ StepOf({"on_message"})
          /\ Registered(FrameTopic(last'))
          /\ DictGet(last'.arg.frame.headers, "version")
                 # _msg_versions[FrameTopic(last')] )
          => /\ last'.raised = "VersionMismatchException"
             /\ last'.invoked = << >>
             /\ ~last'.deserialized
      ]_vars

\* C4 witness: a frame with the wrong version arrived for a topic that has a
\* callback subscribed, and was refused.
C4_Witness ==
    /\ last.op = "on_message"
    /\ FrameTopic(last) \in DOMAIN _callbacks
    /\ "version" \in DOMAIN last.arg.frame.headers
    /\ last.arg.frame.headers["version"] # _msg_versions[FrameTopic(last)]
    /\ last.raised = "VersionMismatchException"

\* C5 (as claimed): a frame whose subscription id has no callback in the
\* client is logged and dropped without raising and without invoking
\* anything; stated for the frame the claim singles out, one carrying the
\* bound version that is delivered right after unsubscribe(topic) completed.
C5_NoHandlerDropped ==
    [][ ( /\ last.op = "unsubscribe"
          /\ last.raised = None
          /\ StepOf({"on_message"})
          /\ FrameTopic(last') = OpTopic(last)
          /\ FrameTopic(last') \notin DOMAIN _callbacks
          /\ DictGet(last'.arg.frame.headers, "version")
                 = _msg_versions[OpTopic(last)] )
          => /\ last'.raised = None
             /\ last'.invoked = << >>
             /\ last'.log # << >>
      ]_vars

\* C6: on a registered topic without a subscription, subscribe issues exactly
\* one transport subscribe, with the topic as destination and id; a subscribe
\* on a topic that has a callback issues no transport call; either way the
\* callback given is the one bound afterwards; only unsubscribe removes a
\* binding; and an accepted frame invokes the callback bound to its topic,
\* so cb1 then cb2 makes one transport subscribe and cb2 the only receiver.
C6_RepeatedSubscribe ==
    [][ /\ (StepOf({"subscribe"}) /\ Registered(OpTopic(last')))
            => /\ last'.raised = None
               /\ _callbacks' = DictSet(_callbacks, OpTopic(last'),
                                        last'.arg.callback)
               /\ IF OpTopic(last') \in DOMAIN _callbacks
                  THEN last'.calls = << >>
                  ELSE last'.calls =
                         << TransportCall("subscribe",
                                [destination |-> OpTopic(last'),
                                 id |-> OpTopic(last')]) >>
        /\ (\E t \in DOMAIN _callbacks : t \notin DOMAIN _callbacks')
            => last'.op = "unsubscribe"
        /\ (StepOf({"on_message"}) /\ last'.invoked # << >>)
            => /\ Len(last'.invoked) = 1
               /\ FrameTopic(last') \in DOMAIN _callbacks
               /\ last'.invoked[1].func = _callbacks[FrameTopic(last')]
      ]_vars

\* C6 witness: a second subscribe replaced the callback without a transport
\* call, the topic is subscribed once at the transport, and a frame was then
\* delivered to the replacing callback.
C6_Witness ==
    /\ last.op = "on_message"
    /\ FrameTopic(last) = "orders"
    /\ last.invoked # << >>
    /\ last.invoked[1].func = "cb_msg_topic"
    /\ _callbacks["orders"] = "cb_msg_topic"
    /\ subscriptions = {"orders"}

\* A connect call with retry limit n has ended in o.
ConnectEnded(o, n) ==
    o.op = "connect" /\ o.raised # Pending /\ o.arg.retry_limit = n

\* C7: connect with retry limit N >= 1 never makes more than N transport
\* connect attempts, the attempt that succeeds ends the call, the call raises
\* ConnectFailedException exactly when N attempts have failed, a normal
\* return follows a successful attempt, and every connect call ends.
C7_ConnectRetries ==
    /\ [](pc # "idle" => (attempts <= retry_limit /\ ~is_connected))
    /\ [](\A n \in RetryLimits \ {0} :
            ConnectEnded(last, n) =>
               /\ Len(last.calls) >= 1
               /\ Len(last.calls) <= n
               /\ \A i \in 1..Len(last.calls) : last.calls[i] = ConnectCall
               /\ last.raised \in {None, "ConnectFailedException"}
               /\ last.raised = "ConnectFailedException"
                     => (Len(last.calls) = n /\ ~is_connected)
               /\ last.raised = None => is_connected)
    /\ [][ (is_connected' /\ ~is_connected)
              => (pc' = "idle" /\ last'.op = "connect" /\ last'.raised = None)
         ]_vars
    /\ (pc # "idle") ~> (pc = "idle")

\* C7 witness: a connect with the default retry limit has raised after its
\* eighth failed attempt.
C7_Witness ==
    /\ ConnectEnded(last, DefaultRetryLimit)
    /\ last.raised = "ConnectFailedException"
    /\ Len(last.calls) = 8

\* C8: send on a registered topic with a payload the message class accepts
\* issues exactly one transport call, a send to the topic whose body is the
\* class's serialization of the payload and whose headers are exactly
\* service, version and sent_at, with the version bound to the topic at that
\* moment and the client's service name.
C8_SendEnvelope ==
    [][ ( /\ StepOf({"send"})
          /\ Registered(OpTopic(last'))
          /\ Constructs(_topics[OpTopic(last')], last'.arg.data) )
          => /\ last'.raised = None
             /\ Len(last'.calls) = 1
             /\ last'.calls[1].method = "send"
             /\ DOMAIN last'.calls[1].kwargs = {"destination", "body", "headers"}
             /\ last'.calls[1].kwargs.destination = OpTopic(last')
             /\ last'.calls[1].kwargs.body
                    = Serialize(_topics[OpTopic(last')], last'.arg.data)
             /\ DOMAIN last'.calls[1].kwargs.headers
                    = {"service", "version", "sent_at"}
             /\ last'.calls[1].kwargs.headers["version"]
                    = _msg_versions[OpTopic(last')]
             /\ last'.calls[1].kwargs.headers["service"] = Service
             /\ last'.calls[1].kwargs.headers["sent_at"]
                    \in { get_str_time_ms(ns) : ns \in ClockNs }
      ]_vars

\* C8 witness: the scenario of the specification, {id: 5, qty: 2} sent on
\* "orders" bound to OrderMsg at version "1.0".
C8_Witness ==
    /\ last.op = "send"
    /\ last.arg = [topic |-> "orders", data |-> [id |-> 5, qty |-> 2]]
    /\ last.raised = None
    /\ _topics["orders"] = "OrderMsg"
    /\ _msg_versions["orders"] = "1.0"
    /\ last.calls[1].kwargs.headers["version"] = "1.0"

\* C9 (as claimed): a callback that receives the headers argument observes
\* the key received_at in it.
C9_ReceivedAtStamped ==
    ( /\ last.op = "on_message"
      /\ last.invoked # << >>
      /\ Len(last.invoked[1].args) >= 3 )
        => "received_at" \in DOMAIN last.invoked[1].args[3]

\* The parameters a callback must be given: no default, and not a collector.
IsRequired(p) ==
    ~p.has_default /\ p.kind \notin {"VAR_POSITIONAL", "VAR_KEYWORD"}

RequiredParams(func) == Len(SelectSeq(Signature(func), IsRequired))

\* Every required parameter can be given positionally.
RequiredArePositional(func) ==
    \A i \in 1..Len(Signature(func)) :
        IsRequired(Signature(func)[i]) => IsPositional(Signature(func)[i])

AcceptsUnlimitedPositional(func) == HasKind(Signature(func), "VAR_POSITIONAL")

\* The frame is accepted: its topic is registered and has a callback, its
\* version is the bound one and its body deserializes.
Accepted(frame) ==
    LET topic == frame.headers["subscription"]
    IN  /\ Registered(topic)
        /\ topic \in DOMAIN _callbacks
        /\ DictGet(frame.headers, "version") = _msg_versions[topic]
        /\ Decodes(_topics[topic], frame.body)

\* The candidate arguments of a dispatch: message, topic, headers.
Candidates(frame) ==
    << Deserialize(_topics[frame.headers["subscription"]], frame.body),
       frame.headers["subscription"],
       frame.headers >>

\* C10 (as claimed): an accepted frame dispatched to a callback that does
\* not accept unlimited positional arguments and declares n <= 3 required
\* parameters invokes it once with exactly the first n candidates.
C10_FirstNArguments ==
    [][ ( /\ StepOf({"on_message"})
          /\ Accepted(last'.arg.frame)
          /\ ~AcceptsUnlimitedPositional(_callbacks[FrameTopic(last')])
          /\ RequiredParams(_callbacks[FrameTopic(last')]) <= 3 )
          => /\ last'.raised = None
             /\ last'.invoked =
                  << Invocation(_callbacks[FrameTopic(last')],
                        SubSeq(Candidates(last'.arg.frame), 1,
                               RequiredParams(_callbacks[FrameTopic(last')])),
                        EmptyDict) >>
      ]_vars

\* C10 (amended): the same for callbacks whose required parameters are all
\* positional (none is keyword-only).
C10_FirstNPositionalArguments ==
    [][ ( /\ StepOf({"on_message"})
          /\ Accepted(last'.arg.frame)
          /\ ~AcceptsUnlimitedPositional(_callbacks[FrameTopic(last')])
          /\ RequiredArePositional(_callbacks[FrameTopic(last')])
          /\ RequiredParams(_callbacks[FrameTopic(last')]) <= 3 )
          => /\ last'.raised = None
             /\ last'.invoked =
                  << Invocation(_callbacks[FrameTopic(last')],
                        SubSeq(Candidates(last'.arg.frame), 1,
                               RequiredParams(_callbacks[FrameTopic(last')])),
                        EmptyDict) >>
      ]_vars

\* C10 witness: a (msg, topic) callback was invoked with message and topic
\* and without the headers.
C10_Witness ==
    /\ last.op = "on_message"
    /\ last.invoked # << >>
    /\ last.invoked[1].func = "cb_msg_topic"
    /\ last.invoked[1].args = SubSeq(Candidates(last.arg.frame), 1, 2)

\* The required parameters that are given positionally.
IsRequiredPositional(p) == IsRequired(p) /\ IsPositional(p)

RequiredPositional(func) == Len(SelectSeq(Signature(func), IsRequiredPositional))

\* C11 (as claimed): an accepted frame dispatched to a callback with 4 or
\* more required positional parameters raises SignatureException and does
\* not invoke it, whatever collectors the callback also declares.
C11_FourRequiredRaises ==
    [][ ( /\ StepOf({"on_message"})
          /\ Accepted(last'.arg.frame)
          /\ RequiredPositional(_callbacks[FrameTopic(last')]) >= 4 )
          => /\ last'.raised = "SignatureException"
             /\ last'.invoked = << >>
      ]_vars

\* C12 (as claimed): unsubscribe on a registered topic, with or without a
\* callback bound, issues one transport unsubscribe with the topic as id and
\* completes with the topic having no callback.
C12_UnsubscribeAnyRegistered ==
    [][ (StepOf({"unsubscribe"}) /\ Registered(OpTopic(last')))
          => /\ last'.raised = None
             /\ last'.calls =
                  << TransportCall("unsubscribe", [id |-> OpTopic(last')]) >>
             /\ OpTopic(last') \notin DOMAIN _callbacks'
      ]_vars

\* The registry as one mapping: topic -> << message class, version >>.
Binding(t, v, topic) == << DictGet(t, topic), DictGet(v, topic) >>

\* C13: registration is last-write-wins and idempotent.  A registration call
\* never raises; it binds each topic it names to exactly the class and the
\* version it gives and leaves the binding of every other topic as it was;
\* nothing but a registration changes the registry (so a binding is the one
\* of the last call that named the topic); and applying the call again to
\* the registry it produced changes nothing.
C13_LastWriteWins ==
    /\ [][ /\ StepOf({"register_topic"})
               => /\ last'.raised = None
                  /\ Binding(_topics', _msg_versions', OpTopic(last'))
                        = << last'.arg.msg_class, last'.arg.version >>
                  /\ DOMAIN _topics' = DOMAIN _topics \cup {OpTopic(last')}
                  /\ \A t \in Topics \ {OpTopic(last')} :
                        Binding(_topics', _msg_versions', t)
                            = Binding(_topics, _msg_versions, t)
           /\ StepOf({"register_topics"})
               => /\ last'.raised = None
                  /\ \A t \in DOMAIN last'.arg.topics :
                        Binding(_topics', _msg_versions', t)
                            = << last'.arg.topics[t], last'.arg.version >>
                  /\ DOMAIN _topics' = DOMAIN _topics \cup DOMAIN last'.arg.topics
                  /\ \A t \in Topics \ DOMAIN last'.arg.topics :
                        Binding(_topics', _msg_versions', t)
                            = Binding(_topics, _msg_versions, t)
           /\ (_topics' # _topics \/ _msg_versions' # _msg_versions)
               => last'.op \in {"register_topic", "register_topics"}
         ]_vars
    /\ [](last.op = "register_topic" =>
            registered_topic(_topics, _msg_versions, OpTopic(last),
                             last.arg.msg_class, last.arg.version)
                = << _topics, _msg_versions >>)
    /\ [](last.op = "register_topics" =>
            registered_topics(_topics, _msg_versions, last.arg.topics,
                              last.arg.version)
                = << _topics, _msg_versions >>)

\* C13 witness: a bulk registration rebound "orders", which plugin discovery
\* or an earlier call had bound to another class and version, and left
\* "status" as it was.
C13_Witness ==
    /\ last.op = "register_topics"
    /\ last.arg = [topics |-> [t \in {"orders"} |-> "StatusMsg"], version |-> "2.0"]
    /\ Binding(_topics, _msg_versions, "orders") = << "StatusMsg", "2.0" >>
    /\ Binding(_topics, _msg_versions, "status") = << "StatusMsg", "1.0" >>

Methods(o) == {o.calls[i].method : i \in 1..Len(o.calls)}

\* C15: disconnect issues the transport disconnect exactly when the
\* transport reports connected, and otherwise makes no transport call and
\* changes nothing; either way the registry and the callbacks are unchanged.
\* A transport connect is issued, and the connection established, by the
\* connect operation alone.
C15_DisconnectOnlyWhenConnected ==
    [][ /\ StepOf({"disconnect"})
            => /\ last'.raised = None
               /\ last'.calls = IF is_connected
                                THEN << TransportCall("disconnect", NoArgs) >>
                                ELSE << >>
               /\ UNCHANGED client_state
               /\ ~is_connected'
               /\ ~is_connected => UNCHANGED << is_connected, subscriptions >>
        /\ ("connect" \in Methods(last') \/ attempts' > attempts)
            => last'.op = "connect"
        /\ (is_connected' /\ ~is_connected) => last'.op = "connect"
      ]_vars

\* C15 witness: disconnect was called on a client that had callbacks bound
\* and was not connected, and did nothing.
C15_Witness ==
    /\ last.op = "disconnect"
    /\ last.calls = << >>
    /\ ~is_connected
    /\ DOMAIN _callbacks = Topics

\* C16: a frame that fails the version check changes nothing but the outcome
\* of its own dispatch (no transport call, registry, callbacks, connection and
\* transport subscriptions as they were), and a frame for the same topic that
\* comes next with the bound version is deserialized and handed to the
\* topic's callback: for a callback whose required parameters are at most
\* three positional ones, it is invoked once.
C16_MismatchPerMessage ==
    [][ /\ (StepOf({"on_message"}) /\ last'.raised = "VersionMismatchException")
            => /\ last'.calls = << >>
               /\ last'.invoked = << >>
               /\ ~last'.deserialized
               /\ UNCHANGED << client_state, is_connected, subscriptions >>
        /\ ( /\ last.op = "on_message"
             /\ last.raised = "VersionMismatchException"
             /\ StepOf({"on_message"})
             /\ FrameTopic(last') = FrameTopic(last)
             /\ Accepted(last'.arg.frame) )
            => /\ last'.deserialized
               /\ last'.raised # "VersionMismatchException"
               /\ ( /\ ~AcceptsUnlimitedPositional(_callbacks[FrameTopic(last')])
                    /\ RequiredArePositional(_callbacks[FrameTopic(last')])
                    /\ RequiredParams(_callbacks[FrameTopic(last')]) <= 3 )
                  => /\ last'.raised = None
                     /\ Len(last'.invoked) = 1
                     /\ last'.invoked[1].func = _callbacks[FrameTopic(last')]
      ]_vars

\* C16 witness: a frame for "status" failed the version check while the
\* client was connected and subscribed to both topics.
C16_Witness ==
    /\ last.op = "on_message"
    /\ last.raised = "VersionMismatchException"
    /\ FrameTopic(last) = "status"
    /\ is_connected
    /\ subscriptions = Topics
    /\ DOMAIN _callbacks = Topics

\* The failed attempts of a connect call that has ended: all of its
\* attempts, less the last one when it returned after connecting.
FailedAttempts(o) ==
    IF o.raised = None /\ Len(o.calls) > 0 THEN Len(o.calls) - 1 ELSE Len(o.calls)

\* What C17 says of the sleeps, whatever the place of the increment: a
\* failure is followed by the sleep and nothing else of the loop, sleeps
\* come one at a time and only after a failure, an attempt is made only with
\* every earlier failure slept on, and a call that has ended slept once for
\* each failed attempt.
OneSleepPerFailure ==
    /\ [](pc \in {"while", "try"} => sleeps = attempts)
    /\ [](pc = "sleep" => attempts = sleeps + 1)
    /\ [](ConnectEnded(last, last.arg.retry_limit)
            => last.slept = FailedAttempts(last))
    /\ [][ /\ attempts' = attempts + 1 => pc' = "sleep"
           /\ pc = "sleep" => (pc' \in {"while", "idle"} /\ attempts' \in {attempts, 0})
           /\ sleeps' > sleeps => (pc = "sleep" /\ sleeps' = sleeps + 1)
         ]_vars

\* C17 (as claimed): one sleep for each failed attempt, and on a failure
\* the order log, sleep, increment: while the sleep is still to come the
\* retry counter does not count the failure yet.
C17_LogSleepIncrement ==
    /\ OneSleepPerFailure
    /\ [](pc = "sleep" => retries = sleeps)

\* C17 (amended): one sleep for each failed attempt, and on a failure the
\* order log, increment, sleep: the retry counter counts the failure when
\* the attempt fails, before the sleep, and the sleep is followed by the
\* test of the counter against the limit.
C17_LogIncrementSleep ==
    /\ OneSleepPerFailure
    /\ [](retries = attempts)
    /\ [](pc = "sleep" => retries = sleeps + 1)
    /\ [][ attempts' = attempts + 1 => (retries' = retries + 1 /\ sleeps' = sleeps)
         ]_vars
    /\ [][ pc = "sleep" => (retries' \in {retries, 0})
         ]_vars

\* C17 witness: a connect with limit 2 has raised after two failed attempts
\* and two sleeps.
C17_Witness ==
    /\ ConnectEnded(last, 2)
    /\ last.raised = "ConnectFailedException"
    /\ Len(last.calls) = 2
    /\ last.slept = 2

\* C18: a send on a registered topic whose fields the message class rejects
\* raises the class's error to the caller, issues no transport call and
\* changes nothing of the client.
C18_ConstructionFailurePropagates ==
    [][ ( /\ StepOf({"send"})
          /\ Registered(OpTopic(last'))
          /\ ~Constructs(_topics[OpTopic(last')], last'.arg.data) )
          => /\ last'.raised = "ValidationError"
             /\ last'.calls = << >>
             /\ UNCHANGED << client_state, is_connected, subscriptions >>
      ]_vars

\* C18 witness: on a live connection a send to "orders" with fields its
\* class rejects has raised.
C18_Witness ==
    /\ last.op = "send"
    /\ OpTopic(last) = "orders"
    /\ Registered("orders")
    /\ ~Constructs(_topics["orders"], last.arg.data)
    /\ last.raised = "ValidationError"
    /\ is_connected

\* C19 (as claimed): a connect that has returned normally, whatever its
\* retry limit, made at least one transport connect attempt and left the
\* transport connected.
C19_NormalReturnMeansConnected ==
    (last.op = "connect" /\ last.raised = None)
        => (Len(last.calls) >= 1 /\ is_connected)

\* C20 (as claimed): while the transport is connected every topic with a
\* callback has a transport subscription on the current connection; and a
\* subscribe that returns normally on a connected client leaves its topic
\* subscribed at the transport.
C20_CallbacksAreSubscribed ==
    /\ [](is_connected => DOMAIN _callbacks \subseteq subscriptions)
    /\ [][ ( /\ StepOf({"subscribe"})
             /\ is_connected
             /\ last'.raised = None )
             => OpTopic(last') \in subscriptions'
         ]_vars

====
